---- MODULE Spec2Model ----
(***************************************************************************)
(* Model of the Neutron "graphs" native module (src/native.cpp): the two   *)
(* string parsers, the SVG renderers, the file/launch sink and the four    *)
(* exported entry points graphs_line, graphs_bar, graphs_scatter and       *)
(* graphs_pie.                                                             *)
(*                                                                         *)
(* Strings are sequences of one-character strings.  A double is an exact   *)
(* rational n/d in lowest terms, or NaN, or a signed infinity; rounding of *)
(* binary floating point and the sign of zero are not modelled.  The       *)
(* alphabet of the inputs has no 'e', 'x', 'p', 'i' or 'n', so std::stod's *)
(* exponent, hexadecimal, "inf" and "nan" forms do not arise, and the      *)
(* inputs are short enough that std::out_of_range does not arise either.   *)
(***************************************************************************)
EXTENDS Integers, Sequences, FiniteSets, TLC

VARIABLES
    pc,        \* position of the running entry point: "idle" between calls
    calls,     \* number of calls started so far
    fn,        \* chart type of the current (or last) call
    args,      \* argument vector of the current (or last) call
    points,    \* local `points` (line, bar, scatter) or `values` (pie)
    svg,       \* the document built by the call (graph.getSVG() / svg)
    success,   \* local `success`: what saveToFile returned
    files,     \* the file system: filename -> document, or NoFile
    ret,       \* the boolean handed back to the host runtime
    fileOpened,\* environment: did std::ofstream open the file in this call
    launchOk,  \* environment: did system() return 0 in this call
    launches,  \* number of times the OS opener was invoked in this call
    trace,     \* steps the current call has performed, in order
    pre,       \* the file system as it was when the current call started
    last,      \* per chart type: document of its last call that returned true
    pin,       \* parser harness: the input text
    pout,      \* parser harness: results of parseCSV and parsePoints
    pdone      \* parser harness: has the parser run

vars == <<pc, calls, fn, args, points, svg, success, files, ret, fileOpened,
          launchOk, launches, trace, pre, last, pin, pout, pdone>>

callVars == <<pc, calls, fn, args, points, svg, success, files, ret,
              fileOpened, launchOk, launches, trace, pre, last>>

parseVars == <<pin, pout, pdone>>

----------------------------------------------------------------------------
(* Bounds of the model.                                                    *)

\* largest number of comma-separated tokens in a parser-harness input
MaxTokens == 3

\* largest number of entry-point calls in one behaviour
MaxCalls == 2

\* largest number of comma-separated tokens in a data string of the
\* single-call specification
MaxRenderTokens == 3

----------------------------------------------------------------------------
(* Doubles.                                                                *)

Abs(i) == IF i < 0 THEN -i ELSE i

RECURSIVE Gcd(_, _)
Gcd(a, b) == IF b = 0 THEN a ELSE Gcd(b, a % b)

\* the rational n/d, d # 0, in lowest terms with a positive denominator
Fin(n, d) ==
    LET g == Gcd(Abs(n), Abs(d))
        s == IF d < 0 THEN -1 ELSE 1
    IN  [k |-> "fin", n |-> (s * n) \div g, d |-> Abs(d) \div g]

NaN == [k |-> "nan", n |-> 0, d |-> 0]

\* s = 1: +infinity, s = -1: -infinity
Inf(s) == [k |-> "inf", n |-> s, d |-> 0]

Num(i) == Fin(i, 1)

IsFin(a) == a.k = "fin"
IsNaN(a) == a.k = "nan"

\* sign of a non-NaN double: -1, 0 or 1
Sgn(a) == IF a.n < 0 THEN -1 ELSE IF a.n > 0 THEN 1 ELSE 0

\* IEEE 754 addition
DAdd(a, b) ==
    IF IsNaN(a) \/ IsNaN(b) THEN NaN
    ELSE IF IsFin(a) /\ IsFin(b) THEN Fin(a.n * b.d + b.n * a.d, a.d * b.d)
    ELSE IF IsFin(a) THEN b
    ELSE IF IsFin(b) THEN a
    ELSE IF a.n = b.n THEN a ELSE NaN

DNeg(a) == IF IsNaN(a) THEN NaN ELSE [a EXCEPT !.n = -a.n]

DSub(a, b) == DAdd(a, DNeg(b))

\* IEEE 754 multiplication
DMul(a, b) ==
    IF IsNaN(a) \/ IsNaN(b) THEN NaN
    ELSE IF IsFin(a) /\ IsFin(b) THEN Fin(a.n * b.n, a.d * b.d)
    ELSE IF Sgn(a) * Sgn(b) = 0 THEN NaN
    ELSE Inf(Sgn(a) * Sgn(b))

\* IEEE 754 division: x/0 is an infinity, 0/0 is NaN
DDiv(a, b) ==
    IF IsNaN(a) \/ IsNaN(b) THEN NaN
    ELSE IF IsFin(a) /\ IsFin(b)
         THEN IF b.n # 0 THEN Fin(a.n * b.d, a.d * b.n)
              ELSE IF a.n = 0 THEN NaN ELSE Inf(Sgn(a))
    ELSE IF IsFin(a) THEN Num(0)
    ELSE IF IsFin(b) THEN Inf(Sgn(a) * (IF b.n < 0 THEN -1 ELSE 1))
    ELSE NaN

\* operator< on doubles: false whenever an operand is NaN
DLess(a, b) ==
    IF IsNaN(a) \/ IsNaN(b) THEN FALSE
    ELSE IF IsFin(a) /\ IsFin(b) THEN a.n * b.d < b.n * a.d
    ELSE IF IsFin(a) THEN b.n > 0
    ELSE IF IsFin(b) THEN a.n < 0
    ELSE a.n < b.n

\* operator== on doubles
DEq(a, b) == ~IsNaN(a) /\ ~IsNaN(b) /\ a = b

\* std::min(a, b) is (b < a) ? b : a; std::max(a, b) is (a < b) ? b : a
DMin(a, b) == IF DLess(b, a) THEN b ELSE a
DMax(a, b) == IF DLess(a, b) THEN b ELSE a

\* Trunc as the floor of the value: rounds negative values away from zero
TruncFloor(a) == a.n \div a.d

\* (int)x for a finite double in int range: truncation toward zero
Trunc(a) == IF a.n >= 0 THEN a.n \div a.d ELSE -((-a.n) \div a.d)

----------------------------------------------------------------------------
(* Strings and std::stod.                                                  *)

Digits == {"0", "1", "2", "3", "4", "5", "6", "7", "8", "9"}

DigitVal(c) ==
    CASE c = "0" -> 0 [] c = "1" -> 1 [] c = "2" -> 2 [] c = "3" -> 3
      [] c = "4" -> 4 [] c = "5" -> 5 [] c = "6" -> 6 [] c = "7" -> 7
      [] c = "8" -> 8 [] c = "9" -> 9

Drop(s, k) == SubSeq(s, k + 1, Len(s))

\* length of the longest prefix of s made of digits
RECURSIVE DigitRun(_)
DigitRun(s) ==
    IF s # <<>> /\ Head(s) \in Digits THEN 1 + DigitRun(Tail(s)) ELSE 0

\* value of a digit string read in base ten
RECURSIVE DecVal(_)
DecVal(s) ==
    IF s = <<>> THEN 0
    ELSE 10 * DecVal(SubSeq(s, 1, Len(s) - 1)) + DigitVal(s[Len(s)])

RECURSIVE Pow10(_)
Pow10(k) == IF k = 0 THEN 1 ELSE 10 * Pow10(k - 1)

\* leading white space, which strtod skips
RECURSIVE SkipWs(_)
SkipWs(s) == IF s # <<>> /\ Head(s) = " " THEN SkipWs(Tail(s)) ELSE s

\* std::stod(s): the value of the longest prefix of s that is a number
\* (white space, an optional sign, digits with an optional '.'); whatever
\* follows the prefix is ignored.  ok = FALSE is std::invalid_argument.
Stod(s) ==
    LET t    == SkipWs(s)
        neg  == t # <<>> /\ Head(t) = "-"
        u    == IF t # <<>> /\ Head(t) \in {"-", "+"} THEN Tail(t) ELSE t
        il   == DigitRun(u)
        v    == Drop(u, il)
        dot  == v # <<>> /\ Head(v) = "."
        fl   == IF dot THEN DigitRun(Tail(v)) ELSE 0
        ip   == DecVal(SubSeq(u, 1, il))
        fp   == IF dot THEN DecVal(SubSeq(Tail(v), 1, fl)) ELSE 0
        mag  == Fin(ip * Pow10(fl) + fp, Pow10(fl))
    IN  IF il + fl = 0 THEN [ok |-> FALSE, val |-> NaN]
        ELSE [ok |-> TRUE, val |-> IF neg THEN DNeg(mag) ELSE mag]

\* number of characters before the first ',' of s, or before its end
RECURSIVE TokenLen(_)
TokenLen(s) ==
    IF s = <<>> \/ Head(s) = "," THEN 0 ELSE 1 + TokenLen(Tail(s))

\* the tokens std::getline(ss, item, ',') yields until the stream fails:
\* a trailing comma ends the last token, it does not start an empty one
RECURSIVE Split(_)
Split(s) ==
    IF s = <<>> THEN <<>>
    ELSE LET n == TokenLen(s)
         IN  <<SubSeq(s, 1, n)>> \o Split(Drop(s, n + 1))

\* std::string::find(':'): position of the first ':', 0 for npos
RECURSIVE FindColon(_)
FindColon(s) ==
    IF s = <<>> THEN 0
    ELSE IF Head(s) = ":" THEN 1
    ELSE LET r == FindColon(Tail(s)) IN IF r = 0 THEN 0 ELSE r + 1

----------------------------------------------------------------------------
(* The value parsers.                                                      *)

Point(x, y) == [x |-> x, y |-> y]

\* parseCSV: every token std::stod converts, in order; a token on which
\* std::stod throws is skipped
RECURSIVE CsvOfTokens(_)
CsvOfTokens(toks) ==
    IF toks = <<>> THEN <<>>
    ELSE LET r == Stod(Head(toks))
         IN  (IF r.ok THEN <<r.val>> ELSE <<>>) \o CsvOfTokens(Tail(toks))

parseCSV(str) == CsvOfTokens(Split(str))

\* the point one token of parsePoints contributes, as a sequence of 0 or 1
PairOfToken(pair) ==
    LET colon == FindColon(pair)
        x == Stod(SubSeq(pair, 1, colon - 1))
        y == Stod(Drop(pair, colon))
    IN  IF colon # 0 /\ x.ok /\ y.ok THEN <<Point(x.val, y.val)>> ELSE <<>>

RECURSIVE PointsOfTokens(_)
PointsOfTokens(toks) ==
    IF toks = <<>> THEN <<>>
    ELSE PairOfToken(Head(toks)) \o PointsOfTokens(Tail(toks))

parsePoints(str) == PointsOfTokens(Split(str))

\* barPoints as "try pairs first, then flat values": flat when no pair parses
barPointsFallback(data) ==
    IF parsePoints(data) # <<>> THEN parsePoints(data)
    ELSE LET values == parseCSV(data)
         IN  [i \in 1..Len(values) |-> Point(Num(i - 1), values[i])]

\* graphs_bar: pairs when the data holds a ':', else the flat values with
\* their zero-based index as x
barPoints(data) ==
    IF FindColon(data) # 0 THEN parsePoints(data)
    ELSE LET values == parseCSV(data)
         IN  [i \in 1..Len(values) |-> Point(Num(i - 1), values[i])]

----------------------------------------------------------------------------
(* Parser harness: the parsers applied to every input of a bounded set.    *)

TokenSet ==
    { <<>>, <<"1">>, <<"-", "2">>, <<"0">>, <<"1", ".", "5">>,
      <<"2", "a">>, <<"a">>, <<"1", ":", "2">>, <<"a", ":", "1">>,
      <<"1", ":", "a">>, <<"2", "a", ":", "1">>, <<"1", ":", "2", ":", "0">>,
      <<":">>, <<"0", ":", "0">> }

RECURSIVE Join(_)
Join(toks) ==
    IF toks = <<>> THEN <<>>
    ELSE IF Len(toks) = 1 THEN Head(toks)
    ELSE Head(toks) \o <<",">> \o Join(Tail(toks))

ParseInputs ==
    UNION { { Join(t) : t \in [1..n -> TokenSet] } : n \in 0..MaxTokens }

NotRun == <<"not run">>

----------------------------------------------------------------------------
(* Number formatting.                                                      *)

\* std::to_string(double) is printf("%f"): six decimals, the magnitude
\* rounded half to even.  The text is represented by the number of
\* millionths it denotes; "nan", "inf" and "-inf" by the double itself.
FmtDouble(a) ==
    IF ~IsFin(a) THEN [text |-> a.k, micro |-> a.n]
    ELSE LET m   == Abs(a.n)
             ip  == m \div a.d
             r   == m % a.d
             f   == (r * 1000000) \div a.d
             rem == (r * 1000000) % a.d
             up  == 2 * rem > a.d \/ (2 * rem = a.d /\ f % 2 = 1)
             mag == ip * 1000000 + f + (IF up THEN 1 ELSE 0)
         IN  [text |-> "f", micro |-> IF a.n < 0 THEN -mag ELSE mag]

\* std::to_string(int): the decimal text, represented by the integer
FmtInt(i) == [text |-> "d", micro |-> i]

----------------------------------------------------------------------------
(* GraphConfig and the Cartesian renderer SVGGraph.                        *)

Width == 800
Height == 600
Padding == 60

DefaultTitle == <<"G", "r", "a", "p", "h">>
PieDefaultTitle == <<"P", "i", "e", " ", "C", "h", "a", "r", "t">>

chartWidth == Width - 2 * Padding
chartHeight == Height - 2 * Padding

\* init(): the XML declaration, the svg root and the background rectangle
init ==
    << [tag |-> "?xml"],
       [tag |-> "svg", width |-> FmtInt(Width), height |-> FmtInt(Height)],
       [tag |-> "rect", fill |-> "#ffffff"] >>

Line(x1, y1, x2, y2) ==
    [tag |-> "line", x1 |-> FmtInt(x1), y1 |-> FmtInt(y1),
     x2 |-> FmtInt(x2), y2 |-> FmtInt(y2)]

\* drawGrid(): the group of 11 vertical lines, each from y = padding to
\* y = height - padding at the x listed, then 11 horizontal lines at the y
\* listed (showGrid is true)
drawGrid ==
    << [tag |-> "g", id |-> "grid",
        vertical |-> [j \in 1..11 |->
                        FmtInt(Padding + (chartWidth * (j - 1)) \div 10)],
        horizontal |-> [j \in 1..11 |->
                        FmtInt(Padding + (chartHeight * (j - 1)) \div 10)]],
       [tag |-> "/g"] >>

drawAxes ==
    << [tag |-> "g", id |-> "axes"],
       Line(Padding, Height - Padding, Width - Padding, Height - Padding),
       Line(Padding, Padding, Padding, Height - Padding),
       [tag |-> "/g"] >>

drawLabels(title) ==
    << [tag |-> "text", x |-> FmtInt(Width \div 2), y |-> FmtInt(30),
        body |-> title],
       [tag |-> "text", x |-> FmtInt(Width \div 2),
        y |-> FmtInt(Height - 10), body |-> <<"X">>],
       [tag |-> "text", x |-> FmtInt(20), y |-> FmtInt(Height \div 2),
        body |-> <<"Y">>] >>

\* the bounding box {minX, maxX, minY, maxY} of an SVGGraph
Box(minX, maxX, minY, maxY) ==
    [minX |-> minX, maxX |-> maxX, minY |-> minY, maxY |-> maxY]

\* scaleX measured from maxX instead of minX: the axis runs right to left
scaleXFromMax(b, x) ==
    DAdd(Num(Padding),
         DMul(DDiv(DSub(b.maxX, x), DSub(b.maxX, b.minX)), Num(chartWidth)))

scaleX(b, x) ==
    DAdd(Num(Padding),
         DMul(DDiv(DSub(x, b.minX), DSub(b.maxX, b.minX)), Num(chartWidth)))

scaleY(b, y) ==
    DSub(Num(Height - Padding),
         DMul(DDiv(DSub(y, b.minY), DSub(b.maxY, b.minY)), Num(chartHeight)))

\* the "Find bounds" loop of lineChart and scatterPlot, from points[0]
RECURSIVE FindBounds(_, _)
FindBounds(b, ps) ==
    IF ps = <<>> THEN b
    ELSE LET p == Head(ps)
         IN  FindBounds(Box(DMin(b.minX, p.x), DMax(b.maxX, p.x),
                            DMin(b.minY, p.y), DMax(b.maxY, p.y)), Tail(ps))

\* PaddedBounds without the "Add padding to bounds" step
PaddedBoundsNoMargin(ps) ==
    FindBounds(Box(ps[1].x, ps[1].x, ps[1].y, ps[1].y), ps)

\* the bounds of lineChart and scatterPlot: the box of the points, each
\* axis widened by 5% of its range at both ends
PaddedBounds(ps) ==
    LET b      == FindBounds(Box(ps[1].x, ps[1].x, ps[1].y, ps[1].y), ps)
        xRange == DSub(b.maxX, b.minX)
        yRange == DSub(b.maxY, b.minY)
        m      == Fin(5, 100)
    IN  Box(DSub(b.minX, DMul(xRange, m)), DAdd(b.maxX, DMul(xRange, m)),
            DSub(b.minY, DMul(yRange, m)), DAdd(b.maxY, DMul(yRange, m)))

Circle(b, p, r) ==
    [tag |-> "circle", cx |-> FmtDouble(scaleX(b, p.x)),
     cy |-> FmtDouble(scaleY(b, p.y)), r |-> r]

\* lineChart with the markers drawn from the last point to the first
lineChartMarkersBackwards(ps, title) ==
    IF ps = <<>> THEN <<>>
    ELSE LET b == PaddedBounds(ps)
         IN  init \o drawGrid \o drawAxes \o drawLabels(title)
             \o << [tag |-> "polyline",
                    pts |-> [i \in 1..Len(ps) |->
                               <<FmtDouble(scaleX(b, ps[i].x)),
                                 FmtDouble(scaleY(b, ps[i].y))>>]] >>
             \o [i \in 1..Len(ps) |-> Circle(b, ps[Len(ps) + 1 - i], 4)]
             \o << [tag |-> "/svg"] >>

\* lineChart: nothing for no points (svg stays empty); else the skeleton,
\* one polyline through the scaled points, one r=4 circle per point
lineChart(ps, title) ==
    IF ps = <<>> THEN <<>>
    ELSE LET b == PaddedBounds(ps)
         IN  init \o drawGrid \o drawAxes \o drawLabels(title)
             \o << [tag |-> "polyline",
                    pts |-> [i \in 1..Len(ps) |->
                               <<FmtDouble(scaleX(b, ps[i].x)),
                                 FmtDouble(scaleY(b, ps[i].y))>>]] >>
             \o [i \in 1..Len(ps) |-> Circle(b, ps[i], 4)]
             \o << [tag |-> "/svg"] >>

\* scatterPlot without the final `svg += "</svg>"`
scatterPlotUnterminated(ps, title) ==
    IF ps = <<>> THEN <<>>
    ELSE LET b == PaddedBounds(ps)
         IN  init \o drawGrid \o drawAxes \o drawLabels(title)
             \o [i \in 1..Len(ps) |-> Circle(b, ps[i], 5)]

\* scatterPlot: the skeleton and one r=5 circle per point
scatterPlot(ps, title) ==
    IF ps = <<>> THEN <<>>
    ELSE LET b == PaddedBounds(ps)
         IN  init \o drawGrid \o drawAxes \o drawLabels(title)
             \o [i \in 1..Len(ps) |-> Circle(b, ps[i], 5)]
             \o << [tag |-> "/svg"] >>

\* the largest y of barChart's loop, from points[0].y
RECURSIVE MaxYOf(_, _)
MaxYOf(m, ps) ==
    IF ps = <<>> THEN m ELSE MaxYOf(DMax(m, Head(ps).y), Tail(ps))

\* the bounds of barChart: x in 0..count, y in 0..1.1 * largest y
BarBounds(ps) ==
    Box(Num(0), Num(Len(ps)), Num(0),
        DMul(MaxYOf(ps[1].y, ps), Fin(11, 10)))

\* BarHeight measured down from maxY instead of up from minY
BarHeightFromMax(b, y) ==
    DMul(DDiv(DSub(b.maxY, y), DSub(b.maxY, b.minY)),
         Num(Height - 2 * Padding))

\* height of the bar of value y
BarHeight(b, y) ==
    DMul(DDiv(DSub(y, b.minY), DSub(b.maxY, b.minY)),
         Num(Height - 2 * Padding))

\* Bar placed at the slot of the point's x instead of its position i
BarAtX(b, n, i, p) ==
    LET barWidth == DDiv(Num(chartWidth), DMul(Num(n), Fin(3, 2)))
        x == DAdd(Num(Padding),
                  DDiv(DMul(Num(chartWidth), DAdd(p.x, Fin(1, 2))), Num(n)))
        h == BarHeight(b, p.y)
        y == DSub(Num(Height - Padding), h)
    IN  << [tag |-> "rect",
            x |-> FmtDouble(DSub(x, DDiv(barWidth, Num(2)))),
            y |-> FmtDouble(y), width |-> FmtDouble(barWidth),
            height |-> FmtDouble(h)],
           [tag |-> "text", x |-> FmtDouble(x),
            y |-> FmtDouble(DSub(y, Num(5))),
            body |-> FmtInt(Trunc(p.y))] >>

\* the rectangle and the label of the bar at zero-based position i;
\* the label is (int)y.  The x of the point is not read.
Bar(b, n, i, p) ==
    LET barWidth == DDiv(Num(chartWidth), DMul(Num(n), Fin(3, 2)))
        x == DAdd(Num(Padding),
                  DDiv(DMul(Num(chartWidth), Fin(2 * i + 1, 2)), Num(n)))
        h == BarHeight(b, p.y)
        y == DSub(Num(Height - Padding), h)
    IN  << [tag |-> "rect",
            x |-> FmtDouble(DSub(x, DDiv(barWidth, Num(2)))),
            y |-> FmtDouble(y), width |-> FmtDouble(barWidth),
            height |-> FmtDouble(h)],
           [tag |-> "text", x |-> FmtDouble(x),
            y |-> FmtDouble(DSub(y, Num(5))),
            body |-> FmtInt(Trunc(p.y))] >>

RECURSIVE Bars(_, _, _, _)
Bars(b, n, i, ps) ==
    IF ps = <<>> THEN <<>>
    ELSE Bar(b, n, i, Head(ps)) \o Bars(b, n, i + 1, Tail(ps))

barChart(ps, title) ==
    IF ps = <<>> THEN <<>>
    ELSE init \o drawGrid \o drawAxes \o drawLabels(title)
         \o Bars(BarBounds(ps), Len(ps), 0, ps)
         \o << [tag |-> "/svg"] >>

----------------------------------------------------------------------------
(* The pie renderer of graphs_pie.                                         *)

\* `total`: the values added up (exact addition, so in any order)
RECURSIVE Total(_)
Total(vs) == IF vs = <<>> THEN Num(0) ELSE DAdd(Head(vs), Total(Tail(vs)))

\* a coordinate c + r*cos(deg) or c + r*sin(deg): the trigonometric value
\* is kept symbolic, named by the angle in degrees it is taken at
OnCircle(f, c, r, deg) == [f |-> f, c |-> c, r |-> r, deg |-> deg]

\* Slice with the large-arc flag set from `angle >= 180`
SliceLargeArcFromHalf(i, v, total, startAngle) ==
    LET angle    == DMul(DDiv(v, total), Num(360))
        endAngle == DAdd(startAngle, angle)
        labelAngle == DAdd(startAngle, DDiv(angle, Num(2)))
    IN  << [tag |-> "path",
            x1 |-> OnCircle("cos", 400, 180, startAngle),
            y1 |-> OnCircle("sin", 320, 180, startAngle),
            largeArc |-> IF DLess(angle, Num(180)) THEN 0 ELSE 1,
            sweep |-> 1,
            x2 |-> OnCircle("cos", 400, 180, endAngle),
            y2 |-> OnCircle("sin", 320, 180, endAngle),
            fill |-> i % 6],
           [tag |-> "text",
            x |-> OnCircle("cos", 400, 126, labelAngle),
            y |-> OnCircle("sin", 320, 126, labelAngle),
            body |-> FmtInt(Trunc(DMul(DDiv(v, total), Num(100))))] >>

\* one slice: the path with its two flags and fill, and the percent label
Slice(i, v, total, startAngle) ==
    LET angle    == DMul(DDiv(v, total), Num(360))
        endAngle == DAdd(startAngle, angle)
        labelAngle == DAdd(startAngle, DDiv(angle, Num(2)))
    IN  << [tag |-> "path",
            x1 |-> OnCircle("cos", 400, 180, startAngle),
            y1 |-> OnCircle("sin", 320, 180, startAngle),
            largeArc |-> IF DLess(Num(180), angle) THEN 1 ELSE 0,
            sweep |-> 1,
            x2 |-> OnCircle("cos", 400, 180, endAngle),
            y2 |-> OnCircle("sin", 320, 180, endAngle),
            fill |-> i % 6],
           [tag |-> "text",
            x |-> OnCircle("cos", 400, 126, labelAngle),
            y |-> OnCircle("sin", 320, 126, labelAngle),
            body |-> FmtInt(Trunc(DMul(DDiv(v, total), Num(100))))] >>

\* Slices without `startAngle = endAngle`: every slice starts at the top
RECURSIVE SlicesNoAdvance(_, _, _, _)
SlicesNoAdvance(i, vs, total, startAngle) ==
    IF vs = <<>> THEN <<>>
    ELSE Slice(i, Head(vs), total, startAngle)
         \o SlicesNoAdvance(i + 1, Tail(vs), total, startAngle)

RECURSIVE Slices(_, _, _, _)
Slices(i, vs, total, startAngle) ==
    IF vs = <<>> THEN <<>>
    ELSE Slice(i, Head(vs), total, startAngle)
         \o Slices(i + 1, Tail(vs), total,
                   DAdd(startAngle, DMul(DDiv(Head(vs), total), Num(360))))

\* the document graphs_pie builds for values whose total is not 0
pieChart(vs, title) ==
    << [tag |-> "?xml"],
       [tag |-> "svg", width |-> FmtInt(800), height |-> FmtInt(600)],
       [tag |-> "rect", fill |-> "#ffffff"],
       [tag |-> "text", x |-> FmtInt(400), y |-> FmtInt(30), body |-> title] >>
    \o Slices(0, vs, Total(vs), Num(-90))
    \o << [tag |-> "/svg"] >>

----------------------------------------------------------------------------
(* The host boundary and the file/launch sink.                             *)

Charts == {"line", "bar", "scatter", "pie"}

\* a NeutronValue: a string, or a value of another type
Str(s) == [type |-> "string", str |-> s]
NonStr == [type |-> "number", str |-> <<>>]

neutron_is_string(v) == v.type = "string"

\* FileName with graphs_scatter still holding the filename of graphs_line
FileNameCopied(f) ==
    CASE f = "line" -> "graph_line.svg"
      [] f = "bar" -> "graph_bar.svg"
      [] f = "scatter" -> "graph_line.svg"
      [] f = "pie" -> "graph_pie.svg"

FileName(f) ==
    CASE f = "line" -> "graph_line.svg"
      [] f = "bar" -> "graph_bar.svg"
      [] f = "scatter" -> "graph_scatter.svg"
      [] f = "pie" -> "graph_pie.svg"

\* the four fixed output filenames
FileNames ==
    {"graph_line.svg", "graph_bar.svg", "graph_scatter.svg", "graph_pie.svg"}

\* the content of a name no file has
NoFile == << [tag |-> "no file"] >>

\* saveToFile: when the stream opens the file holds the content; the result
\* is whether it opened.  `file << content` is taken to write all of it.
saveToFile(fs, filename, content, opened) ==
    IF opened THEN [fs EXCEPT ![filename] = content] ELSE fs

\* ArgsRejected that also refuses a second argument that is no string
ArgsRejectedStrictTitle(a) ==
    IF Len(a) < 1 THEN TRUE
    ELSE IF ~neutron_is_string(a[1]) THEN TRUE
    ELSE IF Len(a) >= 2 THEN ~neutron_is_string(a[2]) ELSE FALSE

\* the first check of every entry point
ArgsRejected(a) == IF Len(a) < 1 THEN TRUE ELSE ~neutron_is_string(a[1])

\* the title: args[1] when it is there and a string, else the default
TitleOf(f, a) ==
    IF Len(a) >= 2 /\ neutron_is_string(a[2]) THEN a[2].str
    ELSE IF f = "pie" THEN PieDefaultTitle ELSE DefaultTitle

\* what an entry point parses out of its data string: points, or for pie
\* the values
ParseFor(f, data) ==
    CASE f = "line" -> parsePoints(data)
      [] f = "scatter" -> parsePoints(data)
      [] f = "bar" -> barPoints(data)
      [] f = "pie" -> parseCSV(data)

\* DataRejected without the points.empty() check
DataRejectedNoEmptyCheck(f, parsed) ==
    f = "pie" /\ DEq(Total(parsed), Num(0))

\* DataRejected that also refuses an axis of range zero
DataRejectedZeroRange(f, parsed) ==
    IF parsed = <<>> THEN TRUE
    ELSE IF f = "pie" THEN DEq(Total(parsed), Num(0))
    ELSE IF f = "bar" THEN DEq(MaxYOf(parsed[1].y, parsed), Num(0))
    ELSE LET p == parsed[1]
             b == FindBounds(Box(p.x, p.x, p.y, p.y), parsed)
         IN  DEq(b.minX, b.maxX) \/ DEq(b.minY, b.maxY)

\* the checks after parsing: nothing parsed, or for pie a total of 0
DataRejected(f, parsed) ==
    IF parsed = <<>> THEN TRUE
    ELSE f = "pie" /\ DEq(Total(parsed), Num(0))

RenderFor(f, parsed, title) ==
    CASE f = "line" -> lineChart(parsed, title)
      [] f = "scatter" -> scatterPlot(parsed, title)
      [] f = "bar" -> barChart(parsed, title)
      [] f = "pie" -> pieChart(parsed, title)

\* ShouldLaunch without the `if (success)`
ShouldLaunchAlways(ok) == TRUE

\* Returned with the result of openInBrowser folded in
ReturnedIfLaunched(ok, launched) == ok /\ launched

\* `if (success) openInBrowser(filename);`
ShouldLaunch(ok) == ok

\* `return neutron_new_boolean(success);`: the launch result is dropped
Returned(ok, launched) == ok

----------------------------------------------------------------------------
(* Inputs of the entry points.                                             *)

DataSet ==
    { <<>>,
      <<"a">>,
      <<"1", ",", "2">>,
      <<"0", ",", "0">>,
      <<"0", ",", "-", "1">>,
      <<"1", ":", "2">>,
      <<"1", ":", "2", ",", "2", ":", "2">>,
      <<"1", ":", "0", ",", "1", ":", "2">>,
      <<"1", ":", "a", ",", "2">>,
      <<"5", ":", "1", ",", "7", ":", "2">> }

Titles == { <<"T">> }

ArgVectors ==
    { <<>>, <<NonStr>> }
    \cup { <<NonStr, Str(t)>> : t \in Titles }
    \cup { <<Str(d)>> : d \in DataSet }
    \cup { <<Str(d), NonStr>> : d \in DataSet }
    \cup { <<Str(d), Str(t)>> : d \in DataSet, t \in Titles }

----------------------------------------------------------------------------
(* The entry points, step by step.                                         *)

Init ==
    /\ pc = "idle"
    /\ calls = 0
    /\ fn = "line"
    /\ args = <<>>
    /\ points = <<>>
    /\ svg = <<>>
    /\ success = FALSE
    /\ files = [n \in FileNames |-> NoFile]
    /\ ret = FALSE
    /\ fileOpened = FALSE
    /\ launchOk = FALSE
    /\ launches = 0
    /\ trace = <<>>
    /\ pre = [n \in FileNames |-> NoFile]
    /\ last = [c \in Charts |-> NoFile]
    /\ pin = <<>>
    /\ pout = [csv |-> NotRun, pts |-> NotRun]
    /\ pdone = FALSE

\* the host runtime calls entry point f with the argument vector a
Call(f, a) ==
    /\ pc = "idle"
    /\ calls < MaxCalls
    /\ calls' = calls + 1
    /\ fn' = f
    /\ args' = a
    /\ points' = <<>>
    /\ svg' = <<>>
    /\ success' = FALSE
    /\ fileOpened' = FALSE
    /\ launchOk' = FALSE
    /\ launches' = 0
    /\ trace' = <<>>
    /\ pre' = files
    /\ pc' = "called"
    /\ UNCHANGED <<files, ret, last, parseVars>>

\* no argument, or a first argument that is no string: return false
RejectArgs ==
    /\ pc = "called"
    /\ ArgsRejected(args)
    /\ ret' = FALSE
    /\ trace' = Append(trace, "return")
    /\ pc' = "idle"
    /\ UNCHANGED <<calls, fn, args, points, svg, success, files, fileOpened,
                   launchOk, launches, pre, last, parseVars>>

\* the data string is parsed
Parse ==
    /\ pc = "called"
    /\ ~ArgsRejected(args)
    /\ points' = ParseFor(fn, args[1].str)
    /\ trace' = Append(trace, "parse")
    /\ pc' = "parsed"
    /\ UNCHANGED <<calls, fn, args, svg, success, files, ret, fileOpened,
                   launchOk, launches, pre, last, parseVars>>

\* nothing was parsed, or the pie total is 0: return false
RejectData ==
    /\ pc = "parsed"
    /\ DataRejected(fn, points)
    /\ ret' = FALSE
    /\ trace' = Append(trace, "return")
    /\ pc' = "idle"
    /\ UNCHANGED <<calls, fn, args, points, svg, success, files, fileOpened,
                   launchOk, launches, pre, last, parseVars>>

\* the title is read and the document is built
Render ==
    /\ pc = "parsed"
    /\ ~DataRejected(fn, points)
    /\ svg' = RenderFor(fn, points, TitleOf(fn, args))
    /\ trace' = Append(trace, "render")
    /\ pc' = "rendered"
    /\ UNCHANGED <<calls, fn, args, points, success, files, ret, fileOpened,
                   launchOk, launches, pre, last, parseVars>>

\* saveToFile: the environment decides whether the file can be opened
Save ==
    /\ pc = "rendered"
    /\ \E opened \in BOOLEAN :
          /\ fileOpened' = opened
          /\ files' = saveToFile(files, FileName(fn), svg, opened)
          /\ success' = opened
    /\ trace' = Append(trace, "write")
    /\ pc' = "saved"
    /\ UNCHANGED <<calls, fn, args, points, svg, ret, launchOk, launches,
                   pre, last, parseVars>>

\* openInBrowser: the environment decides what system() returns
Launch ==
    /\ pc = "saved"
    /\ ShouldLaunch(success)
    /\ \E r \in BOOLEAN : launchOk' = r
    /\ launches' = launches + 1
    /\ trace' = Append(trace, "launch")
    /\ pc' = "launched"
    /\ UNCHANGED <<calls, fn, args, points, svg, success, files, ret,
                   fileOpened, pre, last, parseVars>>

\* the call returns; `last` records the document of a call that returned true
Return ==
    /\ \/ pc = "launched"
       \/ pc = "saved" /\ ~ShouldLaunch(success)
    /\ ret' = Returned(success, launchOk)
    /\ last' = IF ret' THEN [last EXCEPT ![fn] = svg] ELSE last
    /\ trace' = Append(trace, "return")
    /\ pc' = "idle"
    /\ UNCHANGED <<calls, fn, args, points, svg, success, files, fileOpened,
                   launchOk, launches, pre, parseVars>>

Next ==
    \/ \E f \in Charts, a \in ArgVectors : Call(f, a)
    \/ RejectArgs
    \/ Parse
    \/ RejectData
    \/ Render
    \/ Save
    \/ Launch
    \/ Return

Spec == Init /\ [][Next]_vars

----------------------------------------------------------------------------
(* The parser harness.                                                     *)

InitParse ==
    /\ pc = "idle"
    /\ calls = 0
    /\ fn = "line"
    /\ args = <<>>
    /\ points = <<>>
    /\ svg = <<>>
    /\ success = FALSE
    /\ files = [n \in FileNames |-> NoFile]
    /\ ret = FALSE
    /\ fileOpened = FALSE
    /\ launchOk = FALSE
    /\ launches = 0
    /\ trace = <<>>
    /\ pre = [n \in FileNames |-> NoFile]
    /\ last = [c \in Charts |-> NoFile]
    /\ pin \in ParseInputs
    /\ pout = [csv |-> NotRun, pts |-> NotRun]
    /\ pdone = FALSE

RunParsers ==
    /\ ~pdone
    /\ pdone' = TRUE
    /\ pout' = [csv |-> parseCSV(pin), pts |-> parsePoints(pin)]
    /\ UNCHANGED <<pin, callVars>>

NextParse == RunParsers

SpecParse == InitParse /\ [][NextParse]_vars

----------------------------------------------------------------------------
(* One call on a data string drawn from a bounded set of token lists, from *)
(* the moment the host has called the entry point up to the file write.   *)

RenderTokens ==
    { <<"1">>, <<"2">>, <<"2", ".", "5">>, <<"-", "1", ".", "5">>,
      <<"-", "2">>,
      <<"0", ":", "0">>, <<"1", ":", "1">>, <<"2", ":", "1">> }

RenderInputs ==
    UNION { { Join(t) : t \in [1..n -> RenderTokens] } :
            n \in 0..MaxRenderTokens }

InitRender ==
    /\ pc = "called"
    /\ calls = 1
    /\ fn \in Charts
    /\ args \in { <<Str(d)>> : d \in RenderInputs }
    /\ points = <<>>
    /\ svg = <<>>
    /\ success = FALSE
    /\ files = [n \in FileNames |-> NoFile]
    /\ ret = FALSE
    /\ fileOpened = FALSE
    /\ launchOk = FALSE
    /\ launches = 0
    /\ trace = <<>>
    /\ pre = [n \in FileNames |-> NoFile]
    /\ last = [c \in Charts |-> NoFile]
    /\ pin = <<>>
    /\ pout = [csv |-> NotRun, pts |-> NotRun]
    /\ pdone = FALSE

NextRender ==
    \/ Parse
    \/ RejectData
    \/ Render
    \/ Save

SpecRender == InitRender /\ [][NextRender]_vars

----------------------------------------------------------------------------
(* Vocabulary of the properties.                                           *)

\* the whole of s is a number: an optional sign, digits with an optional
\* '.', at least one digit, and nothing before or after
StrictNumeric(s) ==
    LET u   == IF s # <<>> /\ Head(s) \in {"-", "+"} THEN Tail(s) ELSE s
        il  == DigitRun(u)
        v   == Drop(u, il)
        dot == v # <<>> /\ Head(v) = "."
        fl  == IF dot THEN DigitRun(Tail(v)) ELSE 0
    IN  il + fl > 0 /\ il + (IF dot THEN 1 + fl ELSE 0) = Len(u)

HasColon(s) == \E i \in 1..Len(s) : s[i] = ":"

\* the token's parts before and after its first ':'
LeftOf(tok) == SubSeq(tok, 1, FindColon(tok) - 1)
RightOf(tok) == Drop(tok, FindColon(tok))

\* one point per token with a ':' and two numeric halves, in order
RECURSIVE StrictPairs(_)
StrictPairs(toks) ==
    IF toks = <<>> THEN <<>>
    ELSE LET t == Head(toks)
         IN  (IF HasColon(t) /\ StrictNumeric(LeftOf(t))
                             /\ StrictNumeric(RightOf(t))
              THEN <<Point(Stod(LeftOf(t)).val, Stod(RightOf(t)).val)>>
              ELSE <<>>) \o StrictPairs(Tail(toks))

\* one value per numeric token, in order
RECURSIVE StrictValues(_)
StrictValues(toks) ==
    IF toks = <<>> THEN <<>>
    ELSE (IF StrictNumeric(Head(toks)) THEN <<Stod(Head(toks)).val>>
          ELSE <<>>) \o StrictValues(Tail(toks))

\* the call in progress, or the last one, had a string as first argument
FirstArgIsString == IF args = <<>> THEN FALSE ELSE args[1].type = "string"

\* its data string
Data == args[1].str

\* the file of each chart type, as the interface table gives it
FileOfChart ==
    [line |-> "graph_line.svg", bar |-> "graph_bar.svg",
     scatter |-> "graph_scatter.svg", pie |-> "graph_pie.svg"]

\* the data string yields no value (pie, flat bar) or no point
NothingParsed(f, d) ==
    IF f = "pie" \/ (f = "bar" /\ ~HasColon(d)) THEN parseCSV(d) = <<>>
    ELSE parsePoints(d) = <<>>

\* a call has returned and none is in progress
CallReturned == pc = "idle" /\ calls > 0

\* the current call has performed the step
Did(step) == \E i \in 1..Len(trace) : trace[i] = step

\* the title text of a document: the body of its first text element
TitleIn(doc) ==
    LET i == CHOOSE j \in 1..Len(doc) :
                 /\ doc[j].tag = "text"
                 /\ \A h \in 1..(j - 1) : doc[h].tag # "text"
    IN  doc[i].body

IsPrefix(s, t) == Len(s) <= Len(t) /\ s = SubSeq(t, 1, Len(s))

----------------------------------------------------------------------------
(* Properties.                                                             *)

C3_PieTotalNotPositive ==
    (CallReturned /\ fn = "pie" /\ FirstArgIsString
       /\ ~DLess(Num(0), Total(parseCSV(Data)))) =>
        ret = FALSE /\ files = pre

\* C4: each of the four files holds the document of the most recent call
\* of its own chart type that returned true after a write (between the
\* write and the return of the current call: the document just written),
\* or is absent if there was none; a call changes no file of another chart
\* type, and a call that returns without writing changes no file.
C4_FilesHoldLastDocument ==
    /\ \A c \in Charts :
          IF c = fn /\ pc \in {"saved", "launched"} /\ fileOpened
          THEN files[FileOfChart[c]] = svg
          ELSE files[FileOfChart[c]] = last[c]
    /\ \A c \in Charts : c # fn => files[FileOfChart[c]] = pre[FileOfChart[c]]
    /\ (CallReturned /\ ~Did("write")) => files = pre

\* C4 witness: a successful call has replaced the document an earlier call
\* of the same chart type wrote, and a file of another type is absent
C4_Witness ==
    /\ CallReturned /\ ret = TRUE
    /\ pre[FileOfChart[fn]] # NoFile
    /\ files[FileOfChart[fn]] # pre[FileOfChart[fn]]
    /\ \E c \in Charts : files[FileOfChart[c]] = NoFile

\* the call's data was parsed to something the entry point accepts
DataAccepted ==
    /\ FirstArgIsString
    /\ ~NothingParsed(fn, Data)
    /\ fn = "pie" => Total(parseCSV(Data)) # Num(0)

\* C5: a call whose data is accepted returns exactly the outcome of the
\* file write, whatever the launch of the OS opener did.
C5_ReturnIsWriteOutcome ==
    (CallReturned /\ DataAccepted) =>
        /\ Did("write")
        /\ ret = fileOpened
        /\ ret => files[FileOfChart[fn]] = svg

\* C5 witness: the write succeeded, the launch failed, the call returned true
C5_Witness ==
    /\ CallReturned /\ DataAccepted
    /\ launches = 1 /\ launchOk = FALSE
    /\ ret = TRUE

\* C6: the steps of a call occur in the order parse, render, write, launch,
\* return; the opener is invoked at most once, only after the write of the
\* same call succeeded, and never when the file could not be opened, in
\* which case the call returns false.
C6_StepOrder ==
    /\ \/ IsPrefix(trace, <<"parse", "render", "write", "launch", "return">>)
       \/ trace = <<"parse", "render", "write", "return">>
       \/ trace = <<"parse", "return">>
       \/ trace = <<"return">>
    /\ launches <= 1
    /\ launches = 1 <=> Did("launch")
    /\ Did("launch") => fileOpened /\ files[FileOfChart[fn]] = svg
    /\ (CallReturned /\ Did("write") /\ fileOpened) => launches = 1
    /\ (CallReturned /\ Did("write") /\ ~fileOpened) =>
          ret = FALSE /\ launches = 0 /\ files = pre

\* C6 witness: the file could not be opened and the call has returned
C6_Witness ==
    /\ CallReturned
    /\ trace = <<"parse", "render", "write", "return">>
    /\ ~fileOpened

\* C7: parsePoints returns exactly one point per token that has a ':' and
\* whose two halves, split at the first ':', are both numeric, in input
\* order; every other token is omitted.
C7_PairsOnlyFromNumericHalves ==
    pdone => pout.pts = StrictPairs(Split(pin))

\* C8: parseCSV returns the numeric tokens in input order, duplicates kept,
\* and omits every non-numeric token.
C8_ValuesOnlyFromNumericTokens ==
    pdone => pout.csv = StrictValues(Split(pin))

\* the points share one X value, or share one Y value
OneXOrOneY(ps) ==
    \/ \A i, j \in 1..Len(ps) : ps[i].x = ps[j].x
    \/ \A i, j \in 1..Len(ps) : ps[i].y = ps[j].y

\* the largest Y of the points is 0
MaxYIsZero(ps) ==
    /\ \A i \in 1..Len(ps) : ~DLess(Num(0), ps[i].y)
    /\ \E i \in 1..Len(ps) : ps[i].y = Num(0)

\* the accepted data of the call gives an axis of range zero
DegenerateRange ==
    /\ DataAccepted
    /\ \/ fn \in {"line", "scatter"} /\ OneXOrOneY(parsePoints(Data))
       \/ fn = "bar" /\ IF HasColon(Data)
                        THEN MaxYIsZero(parsePoints(Data))
                        ELSE \E i \in 1..Len(parseCSV(Data)) :
                                /\ parseCSV(Data)[i] = Num(0)
                                /\ \A j \in 1..Len(parseCSV(Data)) :
                                      ~DLess(Num(0), parseCSV(Data)[j])

\* C9: a degenerate axis range is no error: the call still renders and
\* writes its complete document, and returns true when the file is writable.
C9_DegenerateRangeIsNoError ==
    (CallReturned /\ DegenerateRange) =>
        /\ Did("render") /\ Did("write")
        /\ svg # <<>> /\ svg[Len(svg)].tag = "/svg"
        /\ fileOpened => ret = TRUE /\ files[FileOfChart[fn]] = svg

\* the formatted number is not finite
NotFinite(t) == t.text \in {"nan", "inf"}

\* C9 witness: a written document of a call that returned true holds a
\* coordinate that is not a finite number
C9_Witness ==
    /\ CallReturned /\ DegenerateRange /\ ret = TRUE
    /\ \E i \in 1..Len(files[FileOfChart[fn]]) :
          LET e == files[FileOfChart[fn]][i]
          IN  \/ e.tag = "circle" /\ (NotFinite(e.cx) \/ NotFinite(e.cy))
              \/ e.tag = "rect" /\ i > 3 /\ NotFinite(e.height)

----------------------------------------------------------------------------
(* Properties of the documents.                                            *)

\* a pie document has been built in the current call
PieRendered == fn = "pie" /\ Did("render")

\* every value is greater than 0
AllPositive(vs) == \A i \in 1..Len(vs) : DLess(Num(0), vs[i])

RECURSIVE SumOf(_)
SumOf(vs) == IF vs = <<>> THEN Num(0) ELSE DAdd(Head(vs), SumOf(Tail(vs)))

\* the sweep of the i-th value: value / total * 360
SweepOf(vs, i) == DMul(DDiv(vs[i], SumOf(vs)), Num(360))

\* the path of the i-th slice of a pie document: four header elements, then
\* a path and a label per slice
PathOf(doc, i) == doc[4 + 2 * i - 1]

\* C11: for a pie of positive values the first slice starts at -90 degrees,
\* each slice starts where the previous one ended, each sweep is
\* value/total*360, and the last slice ends at 270 degrees.
C11_PieSlicesContiguous ==
    (PieRendered /\ AllPositive(parseCSV(Data))) =>
        LET vs == parseCSV(Data)
            n  == Len(vs)
        IN  /\ Len(svg) = 4 + 2 * n + 1
            /\ \A i \in 1..n :
                  /\ PathOf(svg, i).tag = "path"
                  /\ PathOf(svg, i).x1.deg = PathOf(svg, i).y1.deg
                  /\ PathOf(svg, i).x2.deg = PathOf(svg, i).y2.deg
                  /\ DSub(PathOf(svg, i).x2.deg, PathOf(svg, i).x1.deg)
                        = SweepOf(vs, i)
            /\ PathOf(svg, 1).x1.deg = Num(-90)
            /\ \A i \in 2..n :
                  PathOf(svg, i).x1.deg = PathOf(svg, i - 1).x2.deg
            /\ PathOf(svg, n).x2.deg = Num(270)

\* C11 witness: a pie of three positive values that are not all equal
C11_Witness ==
    /\ PieRendered /\ AllPositive(parseCSV(Data))
    /\ Len(parseCSV(Data)) = 3
    /\ parseCSV(Data)[1] # parseCSV(Data)[2]
    /\ PathOf(svg, 3).x2.deg = Num(270)

\* C12: in every pie document the large-arc flag of a slice is 1 exactly
\* when its sweep is strictly greater than 180 degrees, the sweep-direction
\* flag is 1 for every slice, and for positive values at most one slice has
\* large-arc flag 1.
C12_LargeArcFlag ==
    PieRendered =>
        LET vs == parseCSV(Data)
            n  == Len(vs)
        IN  /\ \A i \in 1..n :
                  /\ PathOf(svg, i).largeArc =
                        (IF DLess(Num(180), SweepOf(vs, i)) THEN 1 ELSE 0)
                  /\ PathOf(svg, i).sweep = 1
            /\ AllPositive(vs) =>
                  Cardinality({ i \in 1..n : PathOf(svg, i).largeArc = 1 }) <= 1

\* C12 witness: a slice of exactly 180 degrees, with large-arc flag 0
C12_Witness ==
    /\ PieRendered /\ AllPositive(parseCSV(Data))
    /\ \E i \in 1..Len(parseCSV(Data)) :
          /\ SweepOf(parseCSV(Data), i) = Num(180)
          /\ PathOf(svg, i).largeArc = 0

\* a bar, line or scatter document has been built in the current call
BarRendered == fn = "bar" /\ Did("render")
LineRendered == fn = "line" /\ Did("render")
ScatterRendered == fn = "scatter" /\ Did("render")

\* number of elements before the data marks of a bar, line or scatter
\* document: 3 of init, 2 of the grid, 4 of the axes, 3 labels
SkeletonLen == 12

\* the rectangle and the label of the i-th bar of a bar document
RectOf(doc, i) == doc[SkeletonLen + 2 * i - 1]
LabelOf(doc, i) == doc[SkeletonLen + 2 * i]

\* the integer nearest to a finite double a that is not further from 0
TowardZero(a) ==
    CHOOSE t \in -100..100 :
        IF a.n >= 0 THEN t * a.d <= a.n /\ a.n < (t + 1) * a.d
        ELSE (t - 1) * a.d < a.n /\ a.n <= t * a.d

\* C13: a bar document holds exactly one rectangle and one text label per
\* parsed point, in input order, and the i-th label is the i-th value
\* truncated toward zero, for negative values as for positive ones.
C13_BarLabelsTruncated ==
    BarRendered =>
        LET n == Len(points)
        IN  /\ Len(svg) = SkeletonLen + 2 * n + 1
            /\ \A i \in 1..n :
                  /\ RectOf(svg, i).tag = "rect"
                  /\ LabelOf(svg, i).tag = "text"
                  /\ LabelOf(svg, i).body = FmtInt(TowardZero(points[i].y))
            /\ \A j \in 1..SkeletonLen :
                  svg[j].tag = "rect" => j = 3
            /\ svg[Len(svg)].tag = "/svg"

\* C13 witness: a bar document with a label for -1.5 and one for 2.5
C13_Witness ==
    /\ BarRendered
    /\ \E i, j \in 1..Len(points) :
          /\ points[i].y = Fin(-3, 2) /\ LabelOf(svg, i).body = FmtInt(-1)
          /\ points[j].y = Fin(5, 2) /\ LabelOf(svg, j).body = FmtInt(2)

\* the points of a line or scatter call have been parsed and accepted
CartesianParsed ==
    fn \in {"line", "scatter"} /\ Did("parse") /\ points # <<>>

\* data values the scaling is probed at, besides those of the points
Probes == { Num(-2), Num(0), Fin(1, 2), Num(1), Num(3) }

XsOf(ps) == { ps[i].x : i \in 1..Len(ps) } \cup Probes
YsOf(ps) == { ps[i].y : i \in 1..Len(ps) } \cup Probes

Mid(a, b) == DDiv(DAdd(a, b), Num(2))

\* a <= b on doubles
DLeq(a, b) == DLess(a, b) \/ DEq(a, b)

\* C14: over the bounding box of line and scatter, when the X range is not
\* zero scaleX is affine and monotonic (x1 < x2 gives scaleX(x1) <=
\* scaleX(x2)); when the Y range is not zero scaleY is affine and flipped
\* (y1 < y2 gives scaleY(y1) >= scaleY(y2)).
C14_ScalingMonotonic ==
    CartesianParsed =>
        LET b == PaddedBounds(points)
        IN  /\ b.minX # b.maxX =>
                  \A x1, x2 \in XsOf(points) :
                      /\ DLess(x1, x2) => DLeq(scaleX(b, x1), scaleX(b, x2))
                      /\ DMul(Num(2), scaleX(b, Mid(x1, x2)))
                            = DAdd(scaleX(b, x1), scaleX(b, x2))
            /\ b.minY # b.maxY =>
                  \A y1, y2 \in YsOf(points) :
                      /\ DLess(y1, y2) => DLeq(scaleY(b, y2), scaleY(b, y1))
                      /\ DMul(Num(2), scaleY(b, Mid(y1, y2)))
                            = DAdd(scaleY(b, y1), scaleY(b, y2))

\* C14 witness: two points with x1 < x2 and y1 < y2 that are scaled to
\* different places, the second to the right of and above the first
C14_Witness ==
    /\ CartesianParsed
    /\ \E i, j \in 1..Len(points) :
          LET b == PaddedBounds(points)
          IN  /\ DLess(points[i].x, points[j].x)
              /\ DLess(points[i].y, points[j].y)
              /\ DLess(scaleX(b, points[i].x), scaleX(b, points[j].x))
              /\ DLess(scaleY(b, points[j].y), scaleY(b, points[i].y))

\* the largest of the values of the points
LargestY(ps) ==
    CHOOSE m \in { ps[i].y : i \in 1..Len(ps) } :
        \A i \in 1..Len(ps) : ~DLess(m, ps[i].y)

\* the heights written in a bar document are ordered like the values
HeightsOrderedLikeValues ==
    \A i, j \in 1..Len(points) :
        DLess(points[i].y, points[j].y) =>
            RectOf(svg, i).height.micro < RectOf(svg, j).height.micro

\* C15 as stated: in every bar document whose scaled maximum is not zero,
\* also when values are negative, value_i < value_j implies
\* height_i < height_j.
C15_BarHeightsOrdered ==
    (BarRendered /\ LargestY(points) # Num(0)) => HeightsOrderedLikeValues

\* C15 as amended: in every bar document whose largest value is positive,
\* also when some values are negative, value_i < value_j implies
\* height_i < height_j.
C15_BarHeightsOrderedPositiveMax ==
    (BarRendered /\ DLess(Num(0), LargestY(points))) =>
        HeightsOrderedLikeValues

\* C15 witness: a bar document of a positive, a different positive and a
\* negative value
C15_Witness ==
    /\ BarRendered /\ DLess(Num(0), LargestY(points))
    /\ \E i, j, h \in 1..Len(points) :
          /\ DLess(points[h].y, Num(0))
          /\ DLess(Num(0), points[i].y)
          /\ DLess(points[i].y, points[j].y)
          /\ RectOf(svg, h).height.micro < 0
          /\ RectOf(svg, i).height.micro < RectOf(svg, j).height.micro

\* where the document of a line or scatter call puts the point p
MarkOf(ps, p) ==
    << FmtDouble(scaleX(PaddedBounds(ps), p.x)),
       FmtDouble(scaleY(PaddedBounds(ps), p.y)) >>

\* C16: a line document holds exactly one polyline, whose vertices are the
\* scaled input points in input order (unsorted, duplicates kept), followed
\* by exactly one circle marker per input point in the same order.
C16_LinePolylineAndMarkers ==
    LineRendered =>
        LET ps == parsePoints(Data)
            n  == Len(ps)
        IN  /\ Len(svg) = SkeletonLen + 1 + n + 1
            /\ svg[SkeletonLen + 1].tag = "polyline"
            /\ Len(svg[SkeletonLen + 1].pts) = n
            /\ \A i \in 1..n :
                  /\ svg[SkeletonLen + 1].pts[i] = MarkOf(ps, ps[i])
                  /\ svg[SkeletonLen + 1 + i].tag = "circle"
                  /\ svg[SkeletonLen + 1 + i].r = 4
                  /\ <<svg[SkeletonLen + 1 + i].cx, svg[SkeletonLen + 1 + i].cy>>
                        = MarkOf(ps, ps[i])
            /\ \A j \in 1..Len(svg) :
                  /\ svg[j].tag = "polyline" => j = SkeletonLen + 1
                  /\ svg[j].tag = "circle" =>
                        j \in (SkeletonLen + 2)..(SkeletonLen + 1 + n)

\* C16 witness: a line document of three points, the first repeated as the
\* third and lying to the right of the second
C16_Witness ==
    /\ LineRendered
    /\ Len(points) = 3
    /\ points[1] = points[3]
    /\ DLess(points[2].x, points[1].x)
    /\ svg[SkeletonLen + 2].cx # svg[SkeletonLen + 3].cx
    /\ svg[SkeletonLen + 2].cx = svg[SkeletonLen + 4].cx

\* the document starts with the XML declaration and the svg root, and its
\* closing svg tag occurs once, as the last element
Complete(doc) ==
    /\ Len(doc) >= 3
    /\ doc[1].tag = "?xml"
    /\ doc[2].tag = "svg"
    /\ doc[Len(doc)].tag = "/svg"
    /\ \A j \in 1..Len(doc) :
          /\ doc[j].tag = "/svg" => j = Len(doc)
          /\ doc[j].tag \in {"?xml", "svg"} => j <= 2

\* C17: the document an entry point hands to saveToFile is complete and
\* final: it begins with the XML declaration and the svg root, its closing
\* tag is there once and last, it is unchanged after the write, and no file
\* ever holds an empty or unterminated document.
C17_WrittenDocumentComplete ==
    /\ Did("render") => Complete(svg)
    /\ (Did("write") /\ fileOpened) => files[FileOfChart[fn]] = svg
    /\ \A n \in FileNames : files[n] = NoFile \/ Complete(files[n])

\* C17 witness: a scatter document has been written to its file
C17_Witness ==
    /\ fn = "scatter" /\ Did("write") /\ fileOpened
    /\ Complete(files["graph_scatter.svg"])
    /\ Len(files["graph_scatter.svg"]) > SkeletonLen + 1

\* every token of the data string is a pair of two numbers
AllPairs(d) ==
    /\ Split(d) # <<>>
    /\ \A i \in 1..Len(Split(d)) :
          LET t == Split(d)[i]
          IN  HasColon(t) /\ StrictNumeric(LeftOf(t))
                          /\ StrictNumeric(RightOf(t))

\* the flat list "v0,v1,..." of the pair list "x0:v0,x1:v1,..."
FlatOf(d) == Join([i \in 1..Len(Split(d)) |-> RightOf(Split(d)[i])])

\* C18: the bar document depends only on the sequence of Y values and the
\* title: bar on pairs "x0:v0,x1:v1,..." builds the document bar builds on
\* the flat list "v0,v1,...", whatever the X values, each bar at the slot
\* of its zero-based position.
C18_BarIgnoresX ==
    BarRendered =>
        /\ svg = barChart([i \in 1..Len(points) |->
                              Point(Num(i - 1), points[i].y)],
                          TitleOf(fn, args))
        /\ AllPairs(Data) =>
              /\ ~HasColon(FlatOf(Data))
              /\ svg = barChart(barPoints(FlatOf(Data)), TitleOf(fn, args))
        /\ \A i \in 1..Len(points) :
              LabelOf(svg, i).x =
                  FmtDouble(DAdd(Num(Padding),
                                 DDiv(DMul(Num(Width - 2 * Padding),
                                           Fin(2 * i - 1, 2)),
                                      Num(Len(points)))))

\* C18 witness: a bar document built from pairs whose X values are not
\* their positions
C18_Witness ==
    /\ BarRendered /\ AllPairs(Data)
    /\ Len(points) >= 2
    /\ \A i \in 1..Len(points) : points[i].x # Num(i - 1)
    /\ points[1].y # points[2].y

\* the points differ in X and differ in Y
BothRangesNonZero(ps) ==
    /\ \E i, j \in 1..Len(ps) : ps[i].x # ps[j].x
    /\ \E i, j \in 1..Len(ps) : ps[i].y # ps[j].y

\* the circle markers of a line or scatter document
CirclesOf(doc) == { j \in 1..Len(doc) : doc[j].tag = "circle" }

\* the formatted number lies strictly between the integers lo and hi
StrictlyBetween(t, lo, hi) ==
    t.text = "f" /\ lo * 1000000 < t.micro /\ t.micro < hi * 1000000

\* C19: for line and scatter with points whose X range and Y range are both
\* non-zero, every scaled point, and every mark written, lies strictly
\* inside the plotted interior: padding < x < width - padding and
\* padding < y < height - padding.
C19_MarksStrictlyInside ==
    (CartesianParsed /\ BothRangesNonZero(points)) =>
        /\ \A i \in 1..Len(points) :
              LET b == PaddedBounds(points)
                  x == scaleX(b, points[i].x)
                  y == scaleY(b, points[i].y)
              IN  /\ DLess(Num(Padding), x) /\ DLess(x, Num(Width - Padding))
                  /\ DLess(Num(Padding), y) /\ DLess(y, Num(Height - Padding))
        /\ Did("render") =>
              /\ Cardinality(CirclesOf(svg)) = Len(points)
              /\ \A j \in CirclesOf(svg) :
                    /\ StrictlyBetween(svg[j].cx, Padding, Width - Padding)
                    /\ StrictlyBetween(svg[j].cy, Padding, Height - Padding)
              /\ fn = "line" =>
                    \A i \in 1..Len(points) :
                        LET v == svg[SkeletonLen + 1].pts[i]
                        IN  /\ StrictlyBetween(v[1], Padding, Width - Padding)
                            /\ StrictlyBetween(v[2], Padding, Height - Padding)

\* C19 witness: a scatter document whose leftmost mark is 5/110 of the
\* inner width to the right of the Y axis
C19_Witness ==
    /\ ScatterRendered /\ BothRangesNonZero(points)
    /\ \E j \in CirclesOf(svg) : svg[j].cx = FmtDouble(Fin(1000, 11))

====
